---- MODULE Spec2Model ----
(***************************************************************************)
(* Exam session and question-queue protocol of the AWS Certifications      *)
(* Coach: the Valkey client (src/app/valkey_client.py), the practice-exam  *)
(* page of the Streamlit dashboard (src/app/dashboard.py, show_practice_   *)
(* exam), the score-history insert (src/app/database.py) and the external  *)
(* question producer that appends to exam_queue:<id>.                      *)
(***************************************************************************)
EXTENDS Integers, Sequences, FiniteSets, TLC

(* ----------------------------- bounds ---------------------------------- *)
\* seconds of wall-clock time the model distinguishes (session ids are
\* derived from the clock, one user)
MaxTime == 2
\* questions the producer pushes over a whole run (question instances)
MaxPush == 3
\* push_question calls in a run of the queue operations alone
MaxQueuePush == 4
\* answers one submission can hold (check_answer inputs)
MaxSel == 2
\* largest number of questions of a finished exam whose score is judged
MaxTotal == 10
\* largest score and question number that two update_session calls write
NumAnswers == 2
\* longest list that is written text by text
MaxRawLen == 2
\* number of times the browser session is left alone for over an hour
MaxIdle == 2

(* ------------------------ program constants ---------------------------- *)
\* dashboard.py:390  max_wait = 30
MaxWait == 30
\* dashboard.py:391  wait_interval = 1
WaitInterval == 1
\* dashboard.py:289  the selectbox of question counts; the smallest choice
NumQuestionChoices == {2}

\* Python None, for ids, questions and counters that start at 1
None == 0
SessionIds == 1..MaxTime

VARIABLES
    now,                   \* int(datetime.now().timestamp())
    sessions,              \* Valkey keys session:<id>
    queues,                \* Valkey keys exam_queue:<id>
    queue_ttl,             \* TTL exam_queue:<id>
    generating,            \* ids the producer is generating questions for
    nextQ,                 \* serial of the next question instance produced
    rows,                  \* table exam_sessions (append-only)
    pc,                    \* "render" | "polling" (inside the Start handler)
    waited,                \* dashboard.py:392
    polls,                 \* history: pop_question calls made by the loop
    session_id,            \* local of the Start handler, dashboard.py:356
    num_questions,         \* local of the Start handler, dashboard.py:289
    exam_session_id,       \* st.session_state.*
    current_question,
    question_number,
    total_questions,
    exam_score,
    exam_results,
    show_explanation,
    current_answer_result,
    exam_finished,
    pushed,                \* history: questions appended, per id
    popped,                \* history: questions returned by pops, per id
    quitDone,              \* history: ids of sessions ended by Quit Exam
    startedId,             \* history: the id the latest Start Exam obtained
    idReused,              \* history: a Start Exam obtained an id once more
    last,                  \* history: outcome of the latest handler run
    ua,                    \* check_answer: submitted answer
    ca,                    \* check_answer: correct answer
    verdict,               \* check_answer: result.is_correct, or "unset"
    called,                \* history: the latest direct call of the client
    cutoff,                \* pass/fail: a final score and the two flags
    rmw,                   \* two update_session calls in progress
    page,                  \* st.session_state.page
    authenticated,         \* st.session_state.authenticated
    last_activity,         \* st.session_state.last_activity (None: not set)
    wall,                  \* time.time()
    fresh                  \* history: login_user succeeded, main has not run

storeVars == <<sessions, queues, queue_ttl>>
producerVars == <<generating, nextQ>>
stateVars == <<exam_session_id, current_question, question_number,
               total_questions, exam_score, exam_results, show_explanation,
               current_answer_result, exam_finished>>
handlerVars == <<pc, waited, polls, session_id, num_questions>>
histVars == <<pushed, popped, quitDone, startedId, idReused, last>>
answerVars == <<ua, ca, verdict>>
callVars == <<called>>
\* state of the operations that are specified on their own
loginVars == <<page, authenticated, last_activity, wall, fresh>>
auxVars == <<cutoff, rmw, loginVars>>
vars == <<now, storeVars, producerVars, rows, handlerVars, stateVars,
          histVars, answerVars, callVars, auxVars>>

(* ------------------------- Valkey client ------------------------------- *)
\* the value of an absent session:<id> key
NoSession == [present |-> FALSE, session_id |-> None, total_questions |-> 0,
              score |-> 0, last_question |-> None, started_at |-> None]

\* Each operation takes, next to its arguments, the outcome of its
\* is_connected() probe and store command (TRUE: the command was applied).

\* rpush then expire; o = "down": not connected or rpush raised,
\* "expire_failed": rpush applied and expire raised, "ok"
PushOutcomes == {"down", "expire_failed", "ok"}

\* The elements of a queue are texts.  json.dumps(x) is the JSON text of x
\* (of None: null); a list also holds whatever else its writers put there:
\* a text that is not JSON, or the empty text.
json_dumps(x) == [kind |-> "json", value |-> x]
MalformedText == [kind |-> "malformed", value |-> None]
EmptyText == [kind |-> "empty", value |-> None]

\* json.loads(text): the value, or an exception
json_loads(text) ==
    IF text.kind = "json" THEN [raised |-> FALSE, value |-> text.value]
    ELSE [raised |-> TRUE, value |-> None]

push_question(q, id, item, o) ==
    [ret |-> (o = "ok"),
     queues |-> IF o = "down" THEN q
                ELSE [q EXCEPT ![id] = Append(@, json_dumps(item))]]

\* variant: the tail is taken (rpop)
pop_question_lifo(q, id, c) ==
    IF c /\ Len(q[id]) > 0
    THEN [ret |-> json_loads(q[id][Len(q[id])]).value,
          queues |-> [q EXCEPT ![id] = SubSeq(@, 1, Len(@) - 1)]]
    ELSE [ret |-> None, queues |-> q]

\* variant: the head is read and left in place (lindex)
pop_question_peek(q, id, c) ==
    IF c /\ Len(q[id]) > 0
    THEN [ret |-> json_loads(Head(q[id])).value, queues |-> q]
    ELSE [ret |-> None, queues |-> q]

\* variant: the element behind the head is removed with it
pop_question_dropping(q, id, c) ==
    IF c /\ Len(q[id]) > 0
    THEN [ret |-> json_loads(Head(q[id])).value,
          queues |-> [q EXCEPT ![id] = IF Len(@) > 1 THEN Tail(Tail(@)) ELSE <<>>]]
    ELSE [ret |-> None, queues |-> q]

\* lpop, then "if question_json: return json.loads(question_json)"; an
\* exception of json.loads is caught and None returned
pop_question(q, id, c) ==
    IF c /\ Len(q[id]) > 0
    THEN LET question_json == Head(q[id])
             loaded == json_loads(question_json)
         IN  [ret |-> IF question_json # EmptyText /\ ~loaded.raised
                      THEN loaded.value ELSE None,
              queues |-> [q EXCEPT ![id] = Tail(@)]]
    ELSE [ret |-> None, queues |-> q]

get_queue_length(q, id, c) == IF c THEN Len(q[id]) ELSE 0

clear_queue(q, id, c) ==
    [ret |-> c, queues |-> IF c THEN [q EXCEPT ![id] = <<>>] ELSE q]

\* variant: True is returned also when nothing was written
save_session_blind(s, id, data, c) ==
    [ret |-> TRUE, sessions |-> IF c THEN [s EXCEPT ![id] = data] ELSE s]

save_session(s, id, data, c) ==
    [ret |-> c, sessions |-> IF c THEN [s EXCEPT ![id] = data] ELSE s]

get_session(s, id, c) == IF c /\ s[id].present THEN s[id] ELSE NoSession

\* variant: a record that does not exist is created from the updates
update_session_upsert(s, id, updates, c) ==
    LET session == get_session(s, id, c)
        merged  == [f \in DOMAIN session |->
                      IF f \in DOMAIN updates THEN updates[f]
                      ELSE IF f = "present" THEN TRUE ELSE session[f]]
    IN  IF c
        THEN save_session(s, id, merged, c)
        ELSE [ret |-> FALSE, sessions |-> s]

\* variant: the record is replaced by the updates
update_session_replace(s, id, updates, c) ==
    LET session == get_session(s, id, c)
        merged  == [f \in DOMAIN session |->
                      IF f \in DOMAIN updates THEN updates[f]
                      ELSE IF f = "present" THEN TRUE ELSE NoSession[f]]
    IN  IF c /\ session.present
        THEN save_session(s, id, merged, c)
        ELSE [ret |-> FALSE, sessions |-> s]

\* variant: only last_question is merged
update_session_lastonly(s, id, updates, c) ==
    LET session == get_session(s, id, c)
        merged  == [f \in DOMAIN session |->
                      IF f \in DOMAIN updates /\ f = "last_question"
                      THEN updates[f] ELSE session[f]]
    IN  IF c /\ session.present
        THEN save_session(s, id, merged, c)
        ELSE [ret |-> FALSE, sessions |-> s]

\* variant: the stored fields win over the updates
update_session_stale(s, id, updates, c) ==
    LET session == get_session(s, id, c)
    IN  IF c /\ session.present
        THEN save_session(s, id, session, c)
        ELSE [ret |-> FALSE, sessions |-> s]

\* session.update(updates): updates is a record over some of the fields
\* (c: its own probe, get_session's and save_session's all succeed; when
\* one of them fails nothing is written and False is returned)
update_session(s, id, updates, c) ==
    LET session == get_session(s, id, c)
        merged  == [f \in DOMAIN session |->
                      IF f \in DOMAIN updates THEN updates[f] ELSE session[f]]
    IN  IF c /\ session.present
        THEN save_session(s, id, merged, c)
        ELSE [ret |-> FALSE, sessions |-> s]

\* variant: only the queue is cleared, the record stays
delete_session_keeps_record(s, q, id, c1, c2) ==
    IF c1
    THEN [ret |-> TRUE, sessions |-> s, queues |-> clear_queue(q, id, c2).queues]
    ELSE [ret |-> FALSE, sessions |-> s, queues |-> q]

\* variant: the queue is not cleared
delete_session_keeps_queue(s, q, id, c1, c2) ==
    IF c1
    THEN [ret |-> TRUE, sessions |-> [s EXCEPT ![id] = NoSession], queues |-> q]
    ELSE [ret |-> FALSE, sessions |-> s, queues |-> q]

\* c1: the probe and the DEL of session:<id>; c2: clear_queue's own probe
\* and DEL, whose result is not looked at
delete_session(s, q, id, c1, c2) ==
    IF c1
    THEN [ret |-> TRUE, sessions |-> [s EXCEPT ![id] = NoSession],
          queues |-> clear_queue(q, id, c2).queues]
    ELSE [ret |-> FALSE, sessions |-> s, queues |-> q]

\* the outcomes <<c1, c2>> of one delete_session call (with c1 false,
\* clear_queue is not reached)
DelOutcomes == {<<FALSE, FALSE>>, <<TRUE, FALSE>>, <<TRUE, TRUE>>}

(* ------------------------- time to live -------------------------------- *)
\* what the TTL command answers for a key that does not exist and for a key
\* without an expiry
KeyMissing == -2
NoExpiry == -1
\* valkey_client.py:72  self.client.expire(queue_key, 7200)
QueueTtl == 7200
\* valkey_client.py:128  ttl: int = 7200, applied by SETEX together with
\* the value
SessionTtl == 7200

\* TTL exam_queue:<id> after push_question: RPUSH creates the key without
\* an expiry or leaves the expiry it has, EXPIRE then sets 7200
TtlAfterPush(ttl, q, id, o) ==
    CASE o = "down" -> ttl
      [] o = "ok" -> [ttl EXCEPT ![id] = QueueTtl]
      [] o = "expire_failed" ->
             [ttl EXCEPT ![id] = IF q[id] = <<>> THEN NoExpiry ELSE @]

\* TTL exam_queue:<id> after LPOP or DEL left the queues as q2: a list that
\* became empty is no key any more, another one keeps its expiry
TtlAfter(ttl, q2) ==
    [id \in SessionIds |-> IF q2[id] = <<>> THEN KeyMissing ELSE ttl[id]]

\* TTL session:<id>: the key is only ever written by SETEX
session_ttl(s, id) == IF s[id].present THEN SessionTtl ELSE KeyMissing

(* ------------------------------ Init ----------------------------------- *)
\* what the latest handler run did (history only, read by no action)
\* notify: outcome of the quit_session call; deleted: what delete_session
\* returned; cleared: what its inner clear_queue returned; updated: what
\* update_session returned ("none": not called)
NoRun == [op |-> "none", sid |-> None, notify |-> "none", deleted |-> "none",
          cleared |-> "none", updated |-> "none", inserted |-> FALSE,
          error |-> "none"]

Returned(b) == IF b THEN "ok" ELSE "failed"

DelRun(run, d) ==
    [run EXCEPT !.deleted = Returned(d[1]),
                !.cleared = IF d[1] THEN Returned(d[2]) ELSE "none"]

\* no call was made: the operation, whether the store was unreachable or
\* one of its commands failed, and what the operation returned
NoCall == [op |-> "none", sid |-> None, failed |-> FALSE, ret |-> "none"]

\* no answer is being checked
NoAnswer == [kind |-> "str", val |-> <<>>]

\* the store is empty, the producer idle, the page freshly loaded
\* (dashboard.py:241-259)
InitPage ==
    /\ now = 1
    /\ sessions = [i \in SessionIds |-> NoSession]
    /\ queues = [i \in SessionIds |-> <<>>]
    /\ queue_ttl = [i \in SessionIds |-> KeyMissing]
    /\ generating = {}
    /\ nextQ = 1
    /\ rows = <<>>
    /\ pc = "render"
    /\ waited = 0
    /\ polls = 0
    /\ session_id = None
    /\ num_questions = 0
    /\ exam_session_id = None
    /\ current_question = None
    /\ question_number = 0
    /\ total_questions = 10
    /\ exam_score = 0
    /\ exam_results = <<>>
    /\ show_explanation = FALSE
    /\ current_answer_result = "none"
    /\ exam_finished = FALSE
    /\ pushed = [i \in SessionIds |-> <<>>]
    /\ popped = [i \in SessionIds |-> <<>>]
    /\ quitDone = {}
    /\ startedId = None
    /\ idReused = FALSE
    /\ last = NoRun
    /\ verdict = "unset"
    /\ called = NoCall

\* no final score is looked at
NoCutoff == [score |-> 0, total |-> 1, passed |-> "unset", status_text |-> "unset"]

\* the callers of update_session, and what each of them writes
Callers == {1, 2}
UpdateArgs(k) ==
    IF k = 1 THEN {[score |-> v] : v \in 1..NumAnswers}
    ELSE {[last_question |-> n] : n \in 1..NumAnswers}

\* no update_session call has begun (stale: history, a record was saved
\* while the other caller held the record it had read)
NoRmw == [pc |-> [k \in Callers |-> "start"],
          updates |-> [k \in Callers |-> <<>>],
          session |-> [k \in Callers |-> NoSession],
          ret |-> [k \in Callers |-> "none"],
          stale |-> FALSE]

\* main of home.py on a new browser session
InitLogin ==
    /\ page = "home"
    /\ authenticated = FALSE
    /\ last_activity = None
    /\ wall = 1
    /\ fresh = FALSE

InitAux ==
    /\ cutoff = NoCutoff
    /\ rmw = NoRmw
    /\ InitLogin

Init ==
    /\ InitPage
    /\ InitAux
    /\ ua = NoAnswer
    /\ ca = NoAnswer

(* ------------------------- queue operations ---------------------------- *)
\* one push_question call with the next question instance
Push(id, o) ==
    LET r == push_question(queues, id, nextQ, o)
    IN  /\ queues' = r.queues
        /\ queue_ttl' = TtlAfterPush(queue_ttl, queues, id, o)
        /\ nextQ' = IF r.queues = queues THEN nextQ ELSE nextQ + 1

\* one pop_question call of a consumer
Pop(id, c) ==
    LET r == pop_question(queues, id, c)
    IN  /\ queues' = r.queues
        /\ queue_ttl' = TtlAfter(queue_ttl, r.queues)
        /\ popped' = IF r.ret # None
                     THEN [popped EXCEPT ![id] = Append(@, r.ret)]
                     ELSE popped

QueuePush ==
    /\ nextQ <= MaxQueuePush
    /\ \E id \in SessionIds, o \in PushOutcomes :
         /\ Push(id, o)
         /\ pushed' = IF nextQ' # nextQ
                      THEN [pushed EXCEPT ![id] = Append(@, nextQ)]
                      ELSE pushed
    /\ UNCHANGED <<now, sessions, generating, rows, handlerVars, stateVars,
                   popped, quitDone, startedId, idReused, last,
                   answerVars, callVars, auxVars>>

QueuePop ==
    /\ \E id \in SessionIds, c \in BOOLEAN : Pop(id, c)
    /\ UNCHANGED <<now, sessions, producerVars, rows, handlerVars, stateVars,
                   pushed, quitDone, startedId, idReused, last,
                   answerVars, callVars, auxVars>>

NextQueue == QueuePush \/ QueuePop

SpecQueue == Init /\ [][NextQueue]_vars

(* ------------------------- environment --------------------------------- *)
\* a second of wall-clock time passes
Tick ==
    /\ now < MaxTime
    /\ now' = now + 1
    /\ UNCHANGED <<storeVars, producerVars, rows, handlerVars, stateVars,
                   histVars, answerVars, callVars, auxVars>>

\* the producer appends a question to the queue of a session it was asked
\* to generate for and was not told to stop
ProducerPush ==
    /\ nextQ <= MaxPush
    /\ \E id \in generating, o \in PushOutcomes : Push(id, o)
    /\ UNCHANGED <<now, sessions, generating, rows, handlerVars, stateVars,
                   histVars, answerVars, callVars, auxVars>>

(* --------------------------- AIService --------------------------------- *)
\* trigger_exam_generation(session_id, ...): a fire-and-forget request to
\* the producer; True once the request is dispatched, and the producer may
\* then start to push questions for the session
trigger_exam_generation(gen, sid, dispatched) ==
    [ret |-> dispatched, generating |-> IF dispatched THEN gen \cup {sid} ELSE gen]

\* outcome of the quit_session webhook call: delivered, answered with an
\* error, or raised.  (_call_n8n_webhook of src/app/ai_service.py:29 takes
\* no async_call argument: called as in dashboard.py:932 it raises.)
NotifyOutcomes == {"sent", "error", "raised"}

\* quit_session: a producer that receives it stops generating for sid
request_stop(gen, sid, n) == IF n = "sent" THEN gen \ {sid} ELSE gen

(* --------------------- practice exam: Start Exam ----------------------- *)
NewSession(sid, total) ==
    [present |-> TRUE, session_id |-> sid, total_questions |-> total,
     score |-> 0, last_question |-> None, started_at |-> now]

\* button "Start Exam" up to the polling loop
StartExam ==
    /\ pc = "render"
    /\ exam_session_id = None
    /\ \E total \in NumQuestionChoices, cq \in BOOLEAN, cs \in BOOLEAN,
          trig \in BOOLEAN, d \in DelOutcomes :
         LET sid == now
             q1  == clear_queue(queues, sid, cq).queues
             sv  == save_session(sessions, sid, NewSession(sid, total), cs)
             tr  == trigger_exam_generation(generating, sid, trig)
             del == delete_session(sv.sessions, q1, sid, d[1], d[2])
         IN  IF sv.ret
             THEN IF tr.ret
                  THEN /\ sessions' = sv.sessions
                       /\ queues' = q1
                       /\ queue_ttl' = TtlAfter(queue_ttl, q1)
                       /\ generating' = tr.generating
                       /\ pc' = "polling"
                       /\ waited' = 0
                       /\ polls' = 0
                       /\ session_id' = sid
                       /\ num_questions' = total
                       /\ last' = [NoRun EXCEPT !.op = "start", !.sid = sid]
                  ELSE /\ sessions' = del.sessions
                       /\ queues' = del.queues
                       /\ queue_ttl' = TtlAfter(queue_ttl, del.queues)
                       /\ last' = DelRun([NoRun EXCEPT !.op = "start",
                                       !.sid = sid, !.error = "trigger"], d)
                       /\ UNCHANGED <<generating, handlerVars>>
             ELSE /\ queues' = q1
                  /\ queue_ttl' = TtlAfter(queue_ttl, q1)
                  /\ last' = [NoRun EXCEPT !.op = "start", !.sid = sid,
                                 !.error = "valkey"]
                  /\ UNCHANGED <<sessions, generating, handlerVars>>
    /\ startedId' = now
    /\ idReused' = (idReused \/ startedId = now)
    /\ UNCHANGED <<now, nextQ, rows, stateVars, pushed, popped, quitDone,
                   answerVars, callVars, auxVars>>

\* variant: one turn too many
LoopContinues_offbyone == waited <= MaxWait

\* "while waited < max_wait" (dashboard.py:395)
LoopContinues == waited < MaxWait

\* the Start handler returns: the script run ends and its locals are gone
HandlerReturns ==
    /\ pc' = "render"
    /\ waited' = 0
    /\ polls' = 0
    /\ session_id' = None
    /\ num_questions' = 0

\* one turn of the loop "while waited < max_wait"
Poll ==
    /\ pc = "polling"
    /\ LoopContinues
    /\ \E c \in BOOLEAN :
         LET r == pop_question(queues, session_id, c)
         IN  /\ queues' = r.queues
             /\ queue_ttl' = TtlAfter(queue_ttl, r.queues)
             /\ IF r.ret # None
                THEN /\ popped' = [popped EXCEPT ![session_id] = Append(@, r.ret)]
                     /\ exam_session_id' = session_id
                     /\ current_question' = r.ret
                     /\ question_number' = 1
                     /\ total_questions' = num_questions
                     /\ exam_score' = 0
                     /\ exam_results' = <<>>
                     /\ show_explanation' = FALSE
                     /\ current_answer_result' = "none"
                     /\ last' = [NoRun EXCEPT !.op = "started", !.sid = session_id]
                     /\ HandlerReturns
                     /\ UNCHANGED exam_finished
                ELSE /\ waited' = waited + WaitInterval
                     /\ polls' = polls + 1
                     /\ UNCHANGED <<pc, session_id, num_questions, popped,
                                    stateVars, last>>
    /\ UNCHANGED <<now, sessions, producerVars, rows, pushed, quitDone,
                   startedId, idReused, answerVars, callVars, auxVars>>

\* the loop ended without a question
Timeout ==
    /\ pc = "polling"
    /\ ~LoopContinues
    /\ \E d \in DelOutcomes :
         LET del == delete_session(sessions, queues, session_id, d[1], d[2])
         IN  /\ sessions' = del.sessions
             /\ queues' = del.queues
             /\ queue_ttl' = TtlAfter(queue_ttl, del.queues)
             /\ last' = DelRun([NoRun EXCEPT !.op = "start",
                             !.sid = session_id, !.error = "timeout"], d)
    /\ HandlerReturns
    /\ UNCHANGED <<now, producerVars, rows, stateVars, pushed, popped,
                   quitDone, startedId, idReused, answerVars, callVars, auxVars>>

(* ------------------- practice exam: active session --------------------- *)
\* the question card is on screen (dashboard.py:452)
QuestionShown ==
    /\ pc = "render"
    /\ exam_session_id # None
    /\ current_question # None

\* variant: Next / Finish is offered before an answer was checked
ExplanationShown_unanswered == QuestionShown

\* the explanation with its Next / Finish button is on screen
\* (dashboard.py:580-583)
ExplanationShown ==
    /\ QuestionShown
    /\ show_explanation
    /\ current_answer_result # "none"

\* button "Check Answer"; is_correct is the verdict of check_answer on the
\* answer the user ticked
CheckAnswer ==
    /\ QuestionShown
    /\ ~show_explanation
    /\ \E is_correct \in BOOLEAN, c \in BOOLEAN :
         LET score == IF is_correct THEN exam_score + 1 ELSE exam_score
             upd   == update_session(sessions, exam_session_id,
                          [score |-> score, last_question |-> question_number],
                          c)
         IN  /\ current_answer_result' = IF is_correct THEN "correct" ELSE "incorrect"
             /\ show_explanation' = TRUE
             /\ exam_score' = score
             /\ exam_results' = Append(exam_results, is_correct)
             /\ sessions' = upd.sessions
             /\ last' = [NoRun EXCEPT !.op = "check", !.sid = exam_session_id,
                                      !.updated = Returned(upd.ret)]
    /\ UNCHANGED <<now, queues, queue_ttl, producerVars, rows, handlerVars,
                   exam_session_id, current_question, question_number,
                   total_questions, exam_finished, pushed, popped, quitDone,
                   startedId, idReused, answerVars, callVars, auxVars>>

\* variant: the starved request counts as a question
NextStarved_skips ==
    /\ last' = [NoRun EXCEPT !.op = "next", !.sid = exam_session_id,
                             !.error = "waiting"]
    /\ question_number' = question_number + 1
    /\ show_explanation' = FALSE
    /\ current_answer_result' = "none"
    /\ UNCHANGED <<popped, current_question>>

\* pop_question returned None (dashboard.py:729-732): a warning, a pause
\* and a rerun of the page
NextStarved ==
    /\ last' = [NoRun EXCEPT !.op = "next", !.sid = exam_session_id,
                             !.error = "waiting"]
    /\ UNCHANGED <<popped, current_question, question_number,
                   show_explanation, current_answer_result>>

\* button "Next Question"
NextQuestion ==
    /\ ExplanationShown
    /\ question_number < total_questions
    /\ \E c \in BOOLEAN :
         LET r == pop_question(queues, exam_session_id, c)
         IN  /\ queues' = r.queues
             /\ queue_ttl' = TtlAfter(queue_ttl, r.queues)
             /\ IF r.ret # None
                THEN /\ popped' = [popped EXCEPT ![exam_session_id] = Append(@, r.ret)]
                     /\ current_question' = r.ret
                     /\ question_number' = question_number + 1
                     /\ show_explanation' = FALSE
                     /\ current_answer_result' = "none"
                     /\ last' = [NoRun EXCEPT !.op = "next", !.sid = exam_session_id]
                ELSE NextStarved
    /\ UNCHANGED <<now, sessions, producerVars, rows, handlerVars,
                   exam_session_id, total_questions, exam_score, exam_results,
                   exam_finished, pushed, quitDone, startedId, idReused,
                   answerVars, callVars, auxVars>>

\* the row of the INSERT INTO exam_sessions
ScoreRow(sid) ==
    [session_id |-> sid, total_questions |-> total_questions,
     correct_answers |-> exam_score]

\* variant: no "already finished" guard
FinishShown_unguarded ==
    /\ ExplanationShown
    /\ ~(question_number < total_questions)

\* the "Finish Exam" button is on screen (dashboard.py:718, 733-736)
FinishShown ==
    /\ ExplanationShown
    /\ ~(question_number < total_questions)
    /\ ~exam_finished

\* variant: the clean-up sits in the try block of the insert and is skipped
\* when the row was not written
finish_cleanup_skipped(s, q, sid, saved, d) ==
    IF saved
    THEN delete_session(s, q, sid, d[1], d[2])
    ELSE [ret |-> FALSE, sessions |-> s, queues |-> q]

\* "Clean up Valkey" (dashboard.py:797-801): a try block of its own after
\* the one of the insert, run whether or not the row was written
finish_cleanup(s, q, sid, saved, d) == delete_session(s, q, sid, d[1], d[2])

\* button "Finish Exam"; cg: get_session reaches the store, db: the insert
\* is executed (execute_update returns True)
FinishExam ==
    /\ FinishShown
    /\ \E cg \in BOOLEAN, db \in BOOLEAN, d \in DelOutcomes :
         LET sid          == exam_session_id
             session_data == get_session(sessions, sid, cg)
             insert       == session_data.present /\ db
             del          == finish_cleanup(sessions, queues, sid, insert, d)
         IN  /\ rows' = IF insert THEN Append(rows, ScoreRow(sid)) ELSE rows
             /\ sessions' = del.sessions
             /\ queues' = del.queues
             /\ queue_ttl' = TtlAfter(queue_ttl, del.queues)
             /\ last' = DelRun([NoRun EXCEPT !.op = "finish", !.sid = sid,
                                           !.inserted = insert], d)
    /\ exam_finished' = TRUE
    /\ UNCHANGED <<now, producerVars, handlerVars, exam_session_id,
                   current_question, question_number, total_questions,
                   exam_score, exam_results, show_explanation,
                   current_answer_result, pushed, popped, quitDone,
                   startedId, idReused,
                   answerVars, callVars, auxVars>>

(* ----------------------- practice exam: cleanup ------------------------ *)
\* variant: an exception of the webhook call leaves the handler
Cleanup_raises(op, n, d) ==
    LET sid == exam_session_id
        del == delete_session(sessions, queues, sid, d[1], d[2])
    IN  IF n = "raised"
        THEN /\ last' = [NoRun EXCEPT !.op = op, !.sid = sid, !.notify = n]
             /\ UNCHANGED <<now, storeVars, producerVars, rows, handlerVars,
                            stateVars, pushed, popped, answerVars, callVars, auxVars>>
        ELSE /\ generating' = request_stop(generating, sid, n)
             /\ sessions' = del.sessions
             /\ queues' = del.queues
             /\ queue_ttl' = TtlAfter(queue_ttl, del.queues)
             /\ exam_session_id' = None
             /\ current_question' = None
             /\ question_number' = 0
             /\ exam_score' = 0
             /\ exam_results' = <<>>
             /\ show_explanation' = FALSE
             /\ current_answer_result' = "none"
             /\ exam_finished' = FALSE
             /\ last' = DelRun([NoRun EXCEPT !.op = op, !.sid = sid,
                                            !.notify = n], d)
             /\ UNCHANGED <<now, nextQ, rows, handlerVars, total_questions,
                            pushed, popped, answerVars, callVars, auxVars>>

\* "if done:" (dashboard.py:924-953)
Cleanup(op, n, d) ==
    LET sid == exam_session_id
        del == delete_session(sessions, queues, sid, d[1], d[2])
    IN  /\ generating' = request_stop(generating, sid, n)
        /\ sessions' = del.sessions
        /\ queues' = del.queues
        /\ queue_ttl' = TtlAfter(queue_ttl, del.queues)
        /\ exam_session_id' = None
        /\ current_question' = None
        /\ question_number' = 0
        /\ exam_score' = 0
        /\ exam_results' = <<>>
        /\ show_explanation' = FALSE
        /\ current_answer_result' = "none"
        /\ exam_finished' = FALSE
        /\ last' = DelRun([NoRun EXCEPT !.op = op, !.sid = sid,
                                       !.notify = n], d)
        /\ UNCHANGED <<now, nextQ, rows, handlerVars, total_questions,
                       pushed, popped, answerVars, callVars, auxVars>>

\* button "Take Another Exam" on the results screen
TakeAnotherExam ==
    /\ pc = "render"
    /\ exam_session_id # None
    /\ exam_finished
    /\ \E n \in NotifyOutcomes, d \in DelOutcomes :
         Cleanup("reset", n, d)
    /\ UNCHANGED <<quitDone, startedId, idReused>>

\* variant: the button is also shown on the results screen
QuitExam_unguarded ==
    /\ pc = "render"
    /\ exam_session_id # None
    /\ \E n \in NotifyOutcomes, d \in DelOutcomes :
         Cleanup("quit", n, d)
    /\ quitDone' = quitDone \cup {exam_session_id}
    /\ UNCHANGED <<startedId, idReused>>

\* button "Quit Exam"
QuitExam ==
    /\ pc = "render"
    /\ exam_session_id # None
    /\ ~exam_finished
    /\ \E n \in NotifyOutcomes, d \in DelOutcomes :
         Cleanup("quit", n, d)
    /\ quitDone' = quitDone \cup {exam_session_id}
    /\ UNCHANGED <<startedId, idReused>>

Next ==
    \/ Tick
    \/ ProducerPush
    \/ StartExam
    \/ Poll
    \/ Timeout
    \/ CheckAnswer
    \/ NextQuestion
    \/ FinishExam
    \/ TakeAnotherExam
    \/ QuitExam

Spec == Init /\ [][Next]_vars

(* --------------------------- answer check ------------------------------ *)
\* Texts are sequences of one-character strings.
UpperChar(ch) ==
    CASE ch = "a" -> "A"
      [] ch = "b" -> "B"
      [] ch = "x" -> "X"
      [] ch = "y" -> "Y"
      [] OTHER -> ch

\* str.upper()
Upper(t) == [i \in DOMAIN t |-> UpperChar(t[i])]

\* str.strip()
RECURSIVE LStrip(_)
LStrip(t) == IF t # <<>> /\ Head(t) = " " THEN LStrip(Tail(t)) ELSE t

RECURSIVE RStrip(_)
RStrip(t) ==
    IF t # <<>> /\ t[Len(t)] = " " THEN RStrip(SubSeq(t, 1, Len(t) - 1)) ELSE t

Strip(t) == RStrip(LStrip(t))

\* text.split(')')[0]
RECURSIVE BeforeParen(_)
BeforeParen(t) ==
    IF t = <<>> \/ Head(t) = ")" THEN <<>> ELSE <<Head(t)>> \o BeforeParen(Tail(t))

\* variant: the case is kept
extract_letter_noupper(text) ==
    LET text_str == Strip(text)
    IN  IF \E i \in DOMAIN text_str : text_str[i] = ")"
        THEN Strip(BeforeParen(text_str))
        ELSE IF text_str # <<>> THEN <<text_str[1]>> ELSE <<>>

\* extract_letter (dashboard.py:593-598)
extract_letter(text) ==
    LET text_str == Upper(Strip(text))
    IN  IF \E i \in DOMAIN text_str : text_str[i] = ")"
        THEN Strip(BeforeParen(text_str))
        ELSE IF text_str # <<>> THEN <<text_str[1]>> ELSE <<>>

\* an answer is one option text (radio) or a list of option texts
\* (checkboxes); "if not isinstance(x, list): x = [x]"
AsList(answer) == IF answer.kind = "list" THEN answer.val ELSE <<answer.val>>

\* check_answer(user_answer, correct_answer, ...).is_correct: both answers
\* are normalised to their set of option letters and compared
check_answer(user_answer, correct_answer) ==
    {extract_letter(AsList(user_answer)[i]) : i \in DOMAIN AsList(user_answer)}
      = {extract_letter(AsList(correct_answer)[i]) : i \in DOMAIN AsList(correct_answer)}

\* option texts and answer letters the check is run on:
\* "A", "a", "b", "A) x", "b) y", " a) x", "B )x", " "
OptionTexts ==
    { <<"A">>, <<"a">>, <<"b">>,
      <<"A", ")", " ", "x">>, <<"b", ")", " ", "y">>,
      <<" ", "a", ")", " ", "x">>, <<"B", " ", ")", "x">>, <<" ">> }

RECURSIVE ListsUpTo(_)
ListsUpTo(n) ==
    IF n = 0 THEN {<<>>}
    ELSE LET shorter == ListsUpTo(n - 1)
         IN  shorter \cup {Append(l, t) : l \in shorter, t \in OptionTexts}

Answers ==
    {[kind |-> "str", val |-> t] : t \in OptionTexts}
      \cup {[kind |-> "list", val |-> l] : l \in ListsUpTo(MaxSel) \ {<<>>}}

InitAnswer ==
    /\ InitPage
    /\ InitAux
    /\ ua \in Answers
    /\ ca \in Answers

\* result = ai_service.check_answer(user_answer=..., correct_answer=...)
CheckAnswerCall ==
    /\ verdict = "unset"
    /\ verdict' = IF check_answer(ua, ca) THEN "correct" ELSE "incorrect"
    /\ UNCHANGED <<now, storeVars, producerVars, rows, handlerVars, stateVars,
                   histVars, ua, ca, callVars, auxVars>>

NextAnswer == CheckAnswerCall

SpecAnswer == InitAnswer /\ [][NextAnswer]_vars

(* ------------------ the client's operations, one by one ---------------- *)
\* how a returned value prints
BoolRet(b) == IF b THEN "True" ELSE "False"

\* the rest of the program does not move while the client is called
AdapterFrame ==
    UNCHANGED <<now, generating, rows, handlerVars, stateVars, histVars,
                answerVars, auxVars>>

CallPushQuestion ==
    /\ nextQ <= MaxQueuePush
    /\ \E id \in SessionIds, o \in PushOutcomes :
         LET r == push_question(queues, id, nextQ, o)
         IN  /\ queues' = r.queues
             /\ queue_ttl' = TtlAfterPush(queue_ttl, queues, id, o)
             /\ nextQ' = IF r.queues = queues THEN nextQ ELSE nextQ + 1
             /\ called' = [op |-> "push_question", sid |-> id,
                           failed |-> (o # "ok"), ret |-> BoolRet(r.ret)]
    /\ UNCHANGED sessions
    /\ AdapterFrame

CallPopQuestion ==
    /\ \E id \in SessionIds, c \in BOOLEAN :
         LET r == pop_question(queues, id, c)
         IN  /\ queues' = r.queues
             /\ queue_ttl' = TtlAfter(queue_ttl, r.queues)
             /\ called' = [op |-> "pop_question", sid |-> id, failed |-> ~c,
                           ret |-> IF r.ret = None THEN "None" ELSE "question"]
    /\ UNCHANGED <<sessions, nextQ>>
    /\ AdapterFrame

CallGetQueueLength ==
    /\ \E id \in SessionIds, c \in BOOLEAN :
         called' = [op |-> "get_queue_length", sid |-> id, failed |-> ~c,
                    ret |-> IF get_queue_length(queues, id, c) = 0
                            THEN "0" ELSE "positive"]
    /\ UNCHANGED <<sessions, queues, queue_ttl, nextQ>>
    /\ AdapterFrame

CallClearQueue ==
    /\ \E id \in SessionIds, c \in BOOLEAN :
         LET r == clear_queue(queues, id, c)
         IN  /\ queues' = r.queues
             /\ queue_ttl' = TtlAfter(queue_ttl, r.queues)
             /\ called' = [op |-> "clear_queue", sid |-> id, failed |-> ~c,
                           ret |-> BoolRet(r.ret)]
    /\ UNCHANGED <<sessions, nextQ>>
    /\ AdapterFrame

CallSaveSession ==
    /\ \E id \in SessionIds, total \in NumQuestionChoices, c \in BOOLEAN :
         LET r == save_session(sessions, id, NewSession(id, total), c)
         IN  /\ sessions' = r.sessions
             /\ called' = [op |-> "save_session", sid |-> id, failed |-> ~c,
                           ret |-> BoolRet(r.ret)]
    /\ UNCHANGED <<queues, queue_ttl, nextQ>>
    /\ AdapterFrame

CallGetSession ==
    /\ \E id \in SessionIds, c \in BOOLEAN :
         called' = [op |-> "get_session", sid |-> id, failed |-> ~c,
                    ret |-> IF get_session(sessions, id, c) = NoSession
                            THEN "None" ELSE "session"]
    /\ UNCHANGED <<sessions, queues, queue_ttl, nextQ>>
    /\ AdapterFrame

CallUpdateSession ==
    /\ \E id \in SessionIds, score \in 0..1, c \in BOOLEAN :
         LET r == update_session(sessions, id, [score |-> score], c)
         IN  /\ sessions' = r.sessions
             /\ called' = [op |-> "update_session", sid |-> id, failed |-> ~c,
                           ret |-> BoolRet(r.ret)]
    /\ UNCHANGED <<queues, queue_ttl, nextQ>>
    /\ AdapterFrame

\* a command of delete_session failed when the DEL of the record or the
\* DEL of the queue (in clear_queue) failed
CallDeleteSession ==
    /\ \E id \in SessionIds, d \in DelOutcomes :
         LET r == delete_session(sessions, queues, id, d[1], d[2])
         IN  /\ sessions' = r.sessions
             /\ queues' = r.queues
             /\ queue_ttl' = TtlAfter(queue_ttl, r.queues)
             /\ called' = [op |-> "delete_session", sid |-> id,
                           failed |-> ~(d[1] /\ d[2]), ret |-> BoolRet(r.ret)]
    /\ UNCHANGED nextQ
    /\ AdapterFrame

NextAdapter ==
    \/ CallPushQuestion
    \/ CallPopQuestion
    \/ CallGetQueueLength
    \/ CallClearQueue
    \/ CallSaveSession
    \/ CallGetSession
    \/ CallUpdateSession
    \/ CallDeleteSession

SpecAdapter == Init /\ [][NextAdapter]_vars

\* the operations on session:<id> alone
NextSessions ==
    \/ CallSaveSession
    \/ CallGetSession
    \/ CallUpdateSession
    \/ CallDeleteSession

SpecSessions == Init /\ [][NextSessions]_vars

(* ------------------------- pass / fail cutoff -------------------------- *)
\* everything but the state of the operations that are specified on their own
MainFrame ==
    UNCHANGED <<now, storeVars, producerVars, rows, handlerVars, stateVars,
                histVars, answerVars, callVars>>

\* the threshold both code sites compare the percentage with
PassMark == 70

\* score_percentage = (exam_score / total_questions) * 100, as the exact
\* quotient num / den (the float result lies on the same side of 70 as the
\* exact quotient for every 0 <= score <= total <= 5000)
score_percentage(score, total) == [num |-> score * 100, den |-> total]

\* score_percentage >= 70, for a positive denominator
AtLeast(pct, mark) == pct.num >= mark * pct.den

\* str(score_percentage >= 70).upper(): the literal of the passed column
passed(score, total) ==
    IF AtLeast(score_percentage(score, total), PassMark) THEN "TRUE" ELSE "FALSE"

pass_status_strict(score, total) ==
    LET pct == score_percentage(score, total)
    IN  pct.num > PassMark * pct.den

\* pass_status = score_percentage >= 70 on the results screen
pass_status(score, total) == AtLeast(score_percentage(score, total), PassMark)

\* status_text = "PASSED" if pass_status else "NEEDS IMPROVEMENT"
status_text(status) == IF status THEN "PASSED" ELSE "NEEDS IMPROVEMENT"

\* the final scores an exam of at most MaxTotal questions can end with
FinalScores ==
    {c \in [score : 0..MaxTotal, total : 1..MaxTotal,
             passed : {"unset"}, status_text : {"unset"}] : c.score <= c.total}

InitCutoff ==
    /\ InitPage
    /\ ua = NoAnswer
    /\ ca = NoAnswer
    /\ cutoff \in FinalScores
    /\ rmw = NoRmw
    /\ InitLogin

\* Finish Exam: the passed value of the score-history insert
InsertPassed ==
    /\ cutoff.passed = "unset"
    /\ cutoff' = [cutoff EXCEPT !.passed = passed(cutoff.score, cutoff.total)]
    /\ UNCHANGED <<rmw, loginVars>>
    /\ MainFrame

\* results screen: PASSED or NEEDS IMPROVEMENT
DisplayPassStatus ==
    /\ cutoff.status_text = "unset"
    /\ cutoff' = [cutoff EXCEPT
            !.status_text = status_text(pass_status(cutoff.score, cutoff.total))]
    /\ UNCHANGED <<rmw, loginVars>>
    /\ MainFrame

NextCutoff == InsertPassed \/ DisplayPassStatus

SpecCutoff == InitCutoff /\ [][NextCutoff]_vars

(* ---------------- update_session, two calls at a time ------------------ *)
\* the session both calls update
RmwId == 1

\* everything but the store's records and the state of the two calls
RmwFrame ==
    UNCHANGED <<now, queues, queue_ttl, producerVars, rows, handlerVars,
                stateVars, histVars, answerVars, callVars, cutoff, loginVars>>

\* session.update(updates)
session_update(session, updates) ==
    [f \in DOMAIN session |->
        IF f \in DOMAIN updates THEN updates[f] ELSE session[f]]

\* the record exists before the calls: save_session of a new record
RmwSave ==
    /\ \A k \in Callers : rmw.pc[k] = "start"
    /\ ~sessions[RmwId].present
    /\ \E total \in NumQuestionChoices, c \in BOOLEAN :
         sessions' = save_session(sessions, RmwId, NewSession(RmwId, total), c).sessions
    /\ UNCHANGED rmw
    /\ RmwFrame

\* is_connected(), session = self.get_session(session_id), "if session:"
UpdateRead(k) ==
    /\ rmw.pc[k] = "start"
    /\ \E updates \in UpdateArgs(k), c \in BOOLEAN :
         LET session == get_session(sessions, RmwId, c)
         IN  IF session.present
             THEN rmw' = [rmw EXCEPT !.pc[k] = "read", !.updates[k] = updates,
                                     !.session[k] = session]
             ELSE rmw' = [rmw EXCEPT !.pc[k] = "done", !.updates[k] = updates,
                                     !.ret[k] = BoolRet(FALSE)]
    /\ UNCHANGED sessions
    /\ RmwFrame

\* variant: the record is read again when it is written
UpdateBase_fresh(k) == sessions[RmwId]

\* the local variable session that session.update(updates) changes
UpdateBase(k) == rmw.session[k]

\* session.update(updates); return self.save_session(session_id, session)
UpdateWrite(k) ==
    /\ rmw.pc[k] = "read"
    /\ \E c \in BOOLEAN :
         LET sv == save_session(sessions, RmwId,
                                session_update(UpdateBase(k), rmw.updates[k]), c)
         IN  /\ sessions' = sv.sessions
             /\ rmw' = [rmw EXCEPT
                    !.pc[k] = "done",
                    !.ret[k] = BoolRet(sv.ret),
                    !.stale = @ \/ (sv.ret /\ \E j \in Callers \ {k} :
                                                  rmw.pc[j] = "read")]
    /\ RmwFrame

NextRmw ==
    \/ RmwSave
    \/ \E k \in Callers : UpdateRead(k)
    \/ \E k \in Callers : UpdateWrite(k)

SpecRmw == Init /\ [][NextRmw]_vars

(* ------------------- pop_question on any list content ------------------ *)
\* the texts a writer of exam_queue:<id> can append: the JSON text of a
\* question, the JSON text null (json.dumps(None)), a text that is not JSON
\* and the empty text
RawTexts ==
    {json_dumps(n) : n \in 1..MaxRawLen} \cup
    {json_dumps(None), MalformedText, EmptyText}

\* rpush exam_queue:<id> text, by whoever writes the list
ListWrite ==
    /\ \E id \in SessionIds, text \in RawTexts :
         /\ Len(queues[id]) < MaxRawLen
         /\ queues' = [queues EXCEPT ![id] = Append(@, text)]
         /\ queue_ttl' = TtlAfterPush(queue_ttl, queues, id, "ok")
    /\ UNCHANGED <<sessions, nextQ, called>>
    /\ AdapterFrame

NextPop == ListWrite \/ CallPopQuestion

SpecPop == Init /\ [][NextPop]_vars

(* ------------------- login, logout, inactivity timeout ----------------- *)
\* st.session_state.session_timeout = 3600  (home.py:455)
SessionTimeout == 3600

\* everything but the login state
LoginFrame ==
    /\ UNCHANGED <<cutoff, rmw>>
    /\ MainFrame

\* the browser session is left alone for longer than session_timeout
\* (not between a login and the st.rerun() that ends its handler)
LongWait ==
    /\ pc = "render"
    /\ ~fresh
    /\ wall + SessionTimeout + 1 <= 1 + MaxIdle * (SessionTimeout + 1)
    /\ wall' = wall + SessionTimeout + 1
    /\ UNCHANGED <<page, authenticated, last_activity, fresh>>
    /\ LoginFrame

\* home page, button "Login to Dashboard"
GoToLogin ==
    /\ pc = "render"
    /\ page = "home"
    /\ page' = "login"
    /\ UNCHANGED <<authenticated, last_activity, wall, fresh>>
    /\ LoginFrame

\* login page, "Back"
BackToHome ==
    /\ pc = "render"
    /\ page = "login"
    /\ page' = "home"
    /\ UNCHANGED <<authenticated, last_activity, wall, fresh>>
    /\ LoginFrame

\* st.session_state.last_activity = st.session_state.get('last_activity', None)
LastActivityAtLogin == last_activity

\* login page, submit: login_user(email, password) returns ok
LoginSubmit ==
    /\ pc = "render"
    /\ page = "login"
    /\ \E ok \in BOOLEAN :
         IF ok
         THEN /\ authenticated' = TRUE
              /\ page' = "dashboard"
              /\ last_activity' = LastActivityAtLogin
              /\ fresh' = TRUE
         ELSE UNCHANGED <<page, authenticated, last_activity, fresh>>
    /\ UNCHANGED wall
    /\ LoginFrame

\* "current_time - last_activity > st.session_state.session_timeout"
Expired == last_activity # None /\ wall - last_activity > SessionTimeout

\* a run of main for an authenticated session, up to the routing: the
\* timeout check, then the update of last_activity
MainRun ==
    /\ pc = "render"
    /\ authenticated
    /\ IF Expired
       THEN /\ authenticated' = FALSE
            /\ page' = "home"
            /\ UNCHANGED last_activity
       ELSE /\ last_activity' = wall
            /\ UNCHANGED <<page, authenticated>>
    /\ fresh' = FALSE
    /\ UNCHANGED wall
    /\ LoginFrame

\* this run of main routed to show_dashboard
DashboardShown ==
    /\ authenticated
    /\ page = "dashboard"
    /\ last_activity = wall

\* sidebar of the dashboard, button "Logout"
Logout ==
    /\ pc = "render"
    /\ DashboardShown
    /\ authenticated' = FALSE
    /\ page' = "home"
    /\ UNCHANGED <<last_activity, wall, fresh>>
    /\ LoginFrame

\* the practice exam page is part of the dashboard: its handlers run when
\* main routed to show_dashboard
DashboardStartExam == DashboardShown /\ StartExam
DashboardPoll == DashboardShown /\ Poll
DashboardTimeout == DashboardShown /\ Timeout
DashboardCheckAnswer == DashboardShown /\ CheckAnswer

NextLogin ==
    \/ LongWait
    \/ GoToLogin
    \/ BackToHome
    \/ LoginSubmit
    \/ MainRun
    \/ Logout
    \/ DashboardStartExam
    \/ DashboardPoll
    \/ DashboardTimeout
    \/ DashboardCheckAnswer
    \/ ProducerPush

SpecLogin == Init /\ [][NextLogin]_vars

(* ------------------------- one exam, to its end ------------------------ *)
\* the producer appends a question for a session it was asked to generate
\* (ProducerPush, with the history of what was pushed)
ExamPush ==
    /\ nextQ <= MaxPush
    /\ \E id \in generating, o \in PushOutcomes :
         /\ Push(id, o)
         /\ pushed' = IF nextQ' # nextQ
                      THEN [pushed EXCEPT ![id] = Append(@, nextQ)]
                      ELSE pushed
    /\ UNCHANGED <<now, sessions, generating, rows, handlerVars, stateVars,
                   popped, quitDone, startedId, idReused, last,
                   answerVars, callVars, auxVars>>

\* the first Start Exam of the browser session
FirstStartExam == startedId = None /\ StartExam

\* the user starts one exam, answers every question, asks for the next one
\* and finishes; the producer pushes
NextExam ==
    \/ FirstStartExam
    \/ Poll
    \/ Timeout
    \/ ExamPush
    \/ CheckAnswer
    \/ NextQuestion
    \/ FinishExam

\* the producer goes on pushing, and the user goes on answering and
\* pressing Next Question (again when it found no question) and Finish Exam
SpecExam ==
    /\ Init
    /\ [][NextExam]_vars
    /\ WF_vars(ExamPush)
    /\ WF_vars(CheckAnswer)
    /\ WF_vars(NextQuestion)
    /\ WF_vars(FinishExam)

(* ======================== properties =================================== *)
IsPrefix(a, b) == Len(a) <= Len(b) /\ SubSeq(b, 1, Len(a)) = a

Range(f) == {f[i] : i \in DOMAIN f}

NoDuplicates(f) == \A i, j \in DOMAIN f : f[i] = f[j] => i = j

\* the rows of exam_sessions that carry session id sid
RowsOf(sid) == {i \in DOMAIN rows : rows[i].session_id = sid}

\* the steps in which a handler of the page does something
QuitStep == exam_session_id # None /\ ~exam_finished /\ exam_session_id' = None
CleanupStep == last' # last /\ last'.op \in {"quit", "reset"}
FinishStep == ~exam_finished /\ exam_finished'
TimeoutStep == pc = "polling" /\ pc' = "render" /\ exam_session_id' = None

\* C1 (SpecQueue): under every interleaving of push_question and
\* pop_question calls on a session id, the questions returned by the
\* non-null pops are a prefix, in push order, of the questions pushed.
C1_FifoOrder == \A id \in SessionIds : IsPrefix(popped[id], pushed[id])

\* two questions were popped from one queue while a later push is still queued
C1_Witness ==
    \E id \in SessionIds :
        /\ Len(popped[id]) >= 2
        /\ Len(pushed[id]) > Len(popped[id])
        /\ Len(queues[id]) > 0

\* the questions whose texts a queue holds
Questions(queue) == {json_loads(queue[i]).value : i \in 1..Len(queue)}

\* C2: a question instance returned by a pop is gone from every queue and is
\* never returned by a later pop; no step puts a popped instance back.
C2_AtMostOnce ==
    \A id \in SessionIds :
        /\ NoDuplicates(popped[id])
        /\ \A other \in SessionIds :
               /\ Range(popped[id]) \cap Questions(queues[other]) = {}
               /\ other # id => Range(popped[id]) \cap Range(popped[other]) = {}

\* the exam took its first question in Start and a second one in Next
C2_Witness ==
    /\ exam_session_id # None
    /\ Len(popped[exam_session_id]) >= 2
    /\ question_number = 2
    /\ last.op = "next"

\* C3 as stated: a session in Finished has exactly one row in exam_sessions.
C3_ExactlyOneRow ==
    exam_finished => Cardinality(RowsOf(exam_session_id)) = 1

\* C3 amended: the table changes only in the step that enters Finished, by
\* at most the one row of that finish; no step taken in Finished (another
\* finish, a re-render, the reset) writes a row.
C3_IdempotentFinish ==
    [][/\ exam_finished => rows' = rows
       /\ rows' # rows => /\ FinishStep
                          /\ rows' = Append(rows, ScoreRow(exam_session_id))]_vars

\* the results screen of a finished exam whose row was written
C3_Witness ==
    /\ exam_finished
    /\ last.op = "finish"
    /\ last.inserted
    /\ Cardinality(RowsOf(exam_session_id)) = 1

\* C4 as stated: when the wait for the first question ends without one, at
\* most 30 polls were made, a timeout is reported, the session record is
\* deleted and the page is back in Idle.
C4_TimeoutDeletes ==
    [][TimeoutStep => /\ polls <= MaxWait
                      /\ last'.error = "timeout"
                      /\ sessions'[session_id] = NoSession
                      /\ exam_session_id' = None]_vars

\* C4 amended: the wait makes at most 30 polls, one per second waited, then
\* reports a timeout, calls delete_session (the record is gone when that
\* call returned True) and leaves the page in Idle.
C4_BoundedWait ==
    /\ [](polls <= MaxWait /\ waited = polls * WaitInterval)
    /\ [][TimeoutStep => /\ polls = MaxWait
                         /\ last'.error = "timeout"
                         /\ last'.deleted # "none"
                         /\ last'.deleted = "ok" => sessions'[session_id] = NoSession
                         /\ exam_session_id' = None
                         /\ current_question' = None]_vars

\* the wait timed out, the record was deleted and the page is idle
C4_Witness ==
    /\ last.error = "timeout"
    /\ last.deleted = "ok"
    /\ sessions[last.sid] = NoSession
    /\ pc = "render"
    /\ exam_session_id = None

\* C5 as stated: once Quit Exam completed for an id, get_session(id) is null
\* and the queue length is 0 in every later state.
C5_StaysDeleted ==
    \A id \in quitDone :
        /\ get_session(sessions, id, TRUE) = NoSession
        /\ get_queue_length(queues, id, TRUE) = 0

\* C5 amended: right after a Quit Exam, get_session(id) is null when the
\* delete of the record succeeded and the queue length is 0 when the clear
\* of the queue succeeded; nothing keeps a later push from refilling it.
C5_QuitDeletes ==
    [][QuitStep =>
          /\ last'.op = "quit"
          /\ last'.deleted = "ok" =>
                 get_session(sessions', exam_session_id, TRUE) = NoSession
          /\ last'.cleared = "ok" =>
                 get_queue_length(queues', exam_session_id, TRUE) = 0]_vars

\* a quit removed both keys while the producer was not told to stop
C5_Witness ==
    /\ last.op = "quit"
    /\ last.deleted = "ok"
    /\ last.cleared = "ok"
    /\ last.notify # "sent"
    /\ last.sid \in generating
    /\ sessions[last.sid] = NoSession
    /\ queues[last.sid] = <<>>

\* C6: whenever a delete_session call returned True, right after the call
\* neither session:<id> nor exam_queue:<id> exists.
C6_DeletedTogether ==
    [][(last' # last /\ last'.deleted = "ok") =>
          /\ sessions'[last'.sid] = NoSession
          /\ queues'[last'.sid] = <<>>]_vars

\* the option letter of a text as C7 words it: the upper-cased text before
\* the first ')', or the first character when there is no ')'
LetterAsStated(t) ==
    IF \E i \in DOMAIN t : t[i] = ")"
    THEN LET k == CHOOSE i \in DOMAIN t :
                     t[i] = ")" /\ \A j \in 1..(i - 1) : t[j] # ")"
         IN  Upper(SubSeq(t, 1, k - 1))
    ELSE IF t = <<>> THEN <<>> ELSE Upper(<<t[1]>>)

\* the text without the blanks around it
Trimmed(t) ==
    IF \A i \in DOMAIN t : t[i] = " " THEN <<>>
    ELSE LET lo == CHOOSE i \in DOMAIN t :
                      t[i] # " " /\ \A j \in 1..(i - 1) : t[j] = " "
             hi == CHOOSE i \in DOMAIN t :
                      t[i] # " " /\ \A j \in (i + 1)..Len(t) : t[j] = " "
         IN  SubSeq(t, lo, hi)

\* the same letter, taken from the trimmed text and trimmed again
LetterTrimmed(t) == Trimmed(LetterAsStated(Trimmed(t)))

LettersAsStated(answer) ==
    {LetterAsStated(AsList(answer)[i]) : i \in DOMAIN AsList(answer)}

LettersTrimmed(answer) ==
    {LetterTrimmed(AsList(answer)[i]) : i \in DOMAIN AsList(answer)}

C8_NoRowAfterQuit == \A id \in quitDone : RowsOf(id) = {}

\* C9: when Finished is entered the result row is persisted, the
\* quit_session request was sent to the producer and the session record is
\* deleted.
C9_FinishDoesAll ==
    exam_finished =>
        /\ RowsOf(exam_session_id) # {}
        /\ last.notify = "sent"
        /\ sessions[exam_session_id] = NoSession

\* C10: in the cleanup both the quit_session call and delete_session are
\* made whatever the other one's outcome, no failure escapes, and the page
\* state is reset to Idle.
C10_CleanupFaultTolerant ==
    [][CleanupStep =>
          /\ exam_session_id' = None
          /\ last'.notify \in NotifyOutcomes
          /\ last'.deleted \in {"ok", "failed"}
          /\ last'.deleted = "ok" => sessions'[exam_session_id] = NoSession
          /\ last'.notify = "sent" => exam_session_id \notin generating'
          /\ pc' = "render"
          /\ current_question' = None
          /\ question_number' = 0
          /\ exam_score' = 0
          /\ exam_results' = <<>>
          /\ ~show_explanation'
          /\ current_answer_result' = "none"
          /\ ~exam_finished']_vars

\* a cleanup whose notification raised still deleted the session
C10_Witness ==
    /\ last.op \in {"quit", "reset"}
    /\ last.notify = "raised"
    /\ last.deleted = "ok"
    /\ sessions[last.sid] = NoSession
    /\ exam_session_id = None

\* the Start handler ends in its "trigger failed" branch
TriggerFailStep == last' # last /\ last'.op = "start" /\ last'.error = "trigger"

\* C11 as stated: when the trigger fails after the record was saved, the
\* record and the queue are deleted, the page stays in Idle with an error
\* and no poll is made.
C11_TriggerFailureDeletes ==
    [][TriggerFailStep =>
          /\ sessions'[last'.sid] = NoSession
          /\ queues'[last'.sid] = <<>>
          /\ exam_session_id' = None
          /\ pc' = "render"
          /\ popped' = popped]_vars

\* C11 amended: when the trigger fails after the record was saved,
\* delete_session is called (the record is gone when it returned True, the
\* queue when its clear_queue succeeded), the page stays in Idle with the
\* error and no poll is made.
C11_TriggerFailure ==
    [][TriggerFailStep =>
          /\ last'.deleted # "none"
          /\ last'.deleted = "ok" => sessions'[last'.sid] = NoSession
          /\ last'.cleared = "ok" => queues'[last'.sid] = <<>>
          /\ exam_session_id = None
          /\ exam_session_id' = None
          /\ pc' = "render"
          /\ polls' = 0
          /\ popped' = popped
          /\ generating' = generating]_vars

\* a start whose trigger failed left no record and an idle page
C11_Witness ==
    /\ last.op = "start"
    /\ last.error = "trigger"
    /\ last.deleted = "ok"
    /\ sessions[last.sid] = NoSession
    /\ exam_session_id = None
    /\ pc = "render"

\* C12: while the Start handler polls for the first question and the
\* timeout has not elapsed, a user-initiated quit can take effect (the Quit
\* Exam step with its cleanup is possible).
C12_CancellableWait ==
    (pc = "polling" /\ LoopContinues) => ENABLED QuitExam

\* the step of the Check Answer button, and a Start Exam that saved a record
CheckStep == ~show_explanation /\ show_explanation'
StartSavedStep == last' # last /\ last'.op = "start" /\ last'.error # "valkey"

\* C13 as stated, for the answer submissions: a submission leaves the
\* persisted score of its session as it is or raises it by 1.
C13_ScoreByOne ==
    [][CheckStep =>
          \/ sessions'[exam_session_id].score = sessions[exam_session_id].score
          \/ sessions'[exam_session_id].score = sessions[exam_session_id].score + 1]_vars

\* C13 amended: while a record exists its score changes only (a) in an
\* answer-submission step of its session, which sets it to the running
\* score: it grows, by more than 1 when earlier updates were lost, and never
\* exceeds the number of answers submitted, or (b) when Start Exam saves a
\* new record with score 0 under the same id.  A submission whose
\* update_session returned True leaves the running score in the record.
C13_ScoreMonotone ==
    [][/\ \A id \in SessionIds :
            (sessions[id].present /\ sessions'[id].present
               /\ sessions'[id].score # sessions[id].score) =>
                \/ /\ CheckStep
                   /\ id = exam_session_id
                   /\ sessions'[id].score > sessions[id].score
                   /\ sessions'[id].score = exam_score'
                   /\ exam_score' <= exam_score + 1
                   /\ exam_score' <= Len(exam_results')
                \/ /\ StartSavedStep
                   /\ id = last'.sid
                   /\ sessions'[id].score = 0
       /\ (CheckStep /\ last'.updated = "ok") =>
              sessions'[exam_session_id].score = exam_score']_vars

\* two answers were submitted and the record holds a score of 2
C13_Witness ==
    /\ exam_session_id # None
    /\ last.op = "check"
    /\ last.updated = "ok"
    /\ Len(exam_results) = 2
    /\ sessions[exam_session_id].present
    /\ sessions[exam_session_id].score = 2

\* an exam is being taken (Active)
Active == exam_session_id # None /\ ~exam_finished

\* C14 as stated: while a session is Active the score of its record equals
\* the running score of the page.
C14_ScoreInSync ==
    Active => sessions[exam_session_id].score = exam_score

\* C14 amended: a submission whose update_session returned True leaves the
\* running score in the record; one whose update failed leaves the record
\* as it was; while the session is Active the persisted score is never
\* ahead of the running score.
C14_ScoreSync ==
    /\ [](Active => sessions[exam_session_id].score <= exam_score)
    /\ [][CheckStep =>
             /\ last'.updated \in {"ok", "failed"}
             /\ last'.updated = "ok" =>
                    /\ sessions'[exam_session_id].present
                    /\ sessions'[exam_session_id].score = exam_score'
                    /\ sessions'[exam_session_id].last_question = question_number
             /\ last'.updated = "failed" => sessions' = sessions]_vars

\* after a right and a wrong answer the record holds the running score
C14_Witness ==
    /\ Active
    /\ last.op = "check"
    /\ last.updated = "ok"
    /\ Len(exam_results) = 2
    /\ exam_results[1]
    /\ ~exam_results[2]
    /\ sessions[exam_session_id].score = exam_score
    /\ sessions[exam_session_id].last_question = 2

\* the conservative default of each operation of the client
DefaultOf(op) ==
    CASE op \in {"pop_question", "get_session"} -> "None"
      [] op = "get_queue_length" -> "0"
      [] OTHER -> "False"

\* C15 (SpecAdapter): a call during which the store was unreachable or a
\* store command failed returns the conservative default of its operation
\* (False, None or 0).
C15_ConservativeDefaults ==
    called.failed => called.ret = DefaultOf(called.op)

\* C16: no two Start Exam runs obtain the same session id.  (The clock
\* does not go back, so an id is obtained twice only by two starts in a
\* row.)
C16_DistinctIds == ~idReused

\* C17: every session:<id> and exam_queue:<id> key that exists carries a
\* time to live between 1 and 7200 seconds.
C17_KeysExpire ==
    \A id \in SessionIds :
        /\ sessions[id].present =>
               (session_ttl(sessions, id) > 0 /\ session_ttl(sessions, id) <= 7200)
        /\ queues[id] # <<>> => (queue_ttl[id] > 0 /\ queue_ttl[id] <= 7200)

\* the Finish Exam step of an exam whose row was not written
FinishUnsavedStep == FinishStep /\ ~last'.inserted

\* C18 as stated: a finish whose score-history write failed still deletes
\* the session record, enters Finished and keeps the summary.
C18_FinishStillDeletes ==
    [][FinishUnsavedStep =>
          /\ sessions'[exam_session_id] = NoSession
          /\ exam_finished'
          /\ exam_score' = exam_score
          /\ exam_results' = exam_results]_vars

\* C18 amended: a finish whose score-history write failed still calls
\* delete_session (the record is gone when that call returned True), enters
\* Finished and keeps the score, the results and the question count that
\* the summary shows.
C18_PersistenceFailure ==
    [][FinishUnsavedStep =>
          /\ rows' = rows
          /\ last'.deleted \in {"ok", "failed"}
          /\ last'.deleted = "ok" => sessions'[exam_session_id] = NoSession
          /\ last'.cleared = "ok" => queues'[exam_session_id] = <<>>
          /\ exam_finished'
          /\ exam_session_id' = exam_session_id
          /\ exam_score' = exam_score
          /\ exam_results' = exam_results
          /\ total_questions' = total_questions]_vars

\* the results screen of an exam whose row was not written: the record is
\* deleted and both answers are in the summary
C18_Witness ==
    /\ exam_finished
    /\ last.op = "finish"
    /\ ~last.inserted
    /\ last.deleted = "ok"
    /\ sessions[exam_session_id] = NoSession
    /\ RowsOf(exam_session_id) = {}
    /\ Len(exam_results) = 2

\* a Next Question request that got no question
StarvedStep == last' # last /\ last'.op = "next" /\ last'.error = "waiting"

\* C19: a Next Question that gets no question deletes neither the record
\* nor the queue and leaves the question number, the current question, the
\* score, the results and the reviewing flag as they are, so that the same
\* request can be made again.
C19_StarvationFrame ==
    [][StarvedStep =>
          /\ sessions' = sessions
          /\ queues' = queues
          /\ exam_session_id' = exam_session_id
          /\ question_number' = question_number
          /\ current_question' = current_question
          /\ exam_score' = exam_score
          /\ exam_results' = exam_results
          /\ show_explanation' = show_explanation
          /\ current_answer_result' = current_answer_result
          /\ ~exam_finished'
          /\ show_explanation'
          /\ question_number' < total_questions']_vars

\* the first answer is under review, Next Question found nothing and the
\* record of the session is still there
C19_Witness ==
    /\ last.op = "next"
    /\ last.error = "waiting"
    /\ exam_session_id # None
    /\ sessions[exam_session_id].present
    /\ queues[exam_session_id] = <<>>
    /\ question_number = 1
    /\ show_explanation
    /\ Len(exam_results) = 1

\* the results screen is shown (Finished); no exam is set up (Idle, where
\* Quit Exam leaves the page)
Finished == exam_session_id # None /\ exam_finished
Idle == exam_session_id = None

\* C20: in Finished no answer is submitted, no question fetched and no row
\* written, the only step of the page being the reset to Idle; a quit
\* leaves the page in Idle; and from Idle an exam only begins through Start
\* Exam, under the record that this start saved: score 0, first question,
\* no results, not finished.
C20_NoResume ==
    /\ [](Idle => ~exam_finished)
    /\ [][Finished =>
             /\ rows' = rows
             /\ popped' = popped
             /\ last' # last => (last'.op = "reset" /\ Idle')
             /\ \/ UNCHANGED stateVars
                \/ last'.op = "reset" /\ Idle']_vars
    /\ [][QuitStep => Idle' /\ ~exam_finished']_vars
    /\ [][Idle =>
             /\ last' # last => last'.op \in {"start", "started"}
             /\ rows' = rows
             /\ ~Idle' =>
                    /\ last'.op = "started"
                    /\ exam_session_id' = startedId
                    /\ sessions'[exam_session_id'] =
                           [NewSession(startedId, total_questions')
                               EXCEPT !.started_at = startedId]
                    /\ exam_score' = 0
                    /\ question_number' = 1
                    /\ exam_results' = <<>>
                    /\ ~show_explanation'
                    /\ ~exam_finished']_vars

\* after a finished exam and its reset, a second exam is under way
C20_Witness ==
    /\ Active
    /\ last.op = "started"
    /\ Len(rows) = 1
    /\ question_number = 1
    /\ exam_score = 0
    /\ sessions[exam_session_id].score = 0

(* ------------------------------- C21 ----------------------------------- *)
\* C21: for every final score with 0 <= score <= total and total > 0, the
\* passed flag written to the score history and the pass status shown on the
\* results screen are equal, and both are true exactly when
\* 100 * score >= 70 * total.
C21_UniformCutoff ==
    /\ cutoff.passed # "unset" =>
            ((cutoff.passed = "TRUE") <=> (100 * cutoff.score >= 70 * cutoff.total))
    /\ cutoff.status_text # "unset" =>
            ((cutoff.status_text = "PASSED")
                <=> (100 * cutoff.score >= 70 * cutoff.total))
    /\ (cutoff.passed # "unset" /\ cutoff.status_text # "unset") =>
            ((cutoff.passed = "TRUE") <=> (cutoff.status_text = "PASSED"))

\* 7 of 10 is judged by both sites, and passes
C21_Witness ==
    /\ cutoff.score = 7
    /\ cutoff.total = 10
    /\ cutoff.passed = "TRUE"
    /\ cutoff.status_text = "PASSED"

(* ------------------------------- C22 ----------------------------------- *)
\* the configuration fields of a session record
Config(session) ==
    [session_id |-> session.session_id,
     total_questions |-> session.total_questions,
     started_at |-> session.started_at]

BothTrue == \A k \in Callers : rmw.pc[k] = "done" /\ rmw.ret[k] = BoolRet(TRUE)

\* the stored record lacks the change of one of the calls
LacksChange ==
    \E k \in Callers : \E f \in DOMAIN rmw.updates[k] :
        sessions[RmwId][f] # rmw.updates[k][f]

\* C23: update_session reads the record and writes it back in two steps, so
\* of two calls on one existing session that write different fields and
\* both return True, the record lacks the change of one exactly when the
\* later writer had read the record before the earlier writer saved it.
C23_LostUpdate == BothTrue => (LacksChange <=> rmw.stale)

\* both calls returned True and one change is lost
C23_Witness == BothTrue /\ LacksChange

(* ------------------------------- C24 ----------------------------------- *)
\* the step of the Start Exam button
StartButtonStep == pc = "render" /\ last' # last /\ last'.op = "start"

\* C24: within a start the queue of the new id is cleared first (whether or
\* not the record can be saved afterwards, nothing but a clearing happens to
\* it), the trigger is sent only when the record was saved, and polling
\* begins only when the trigger was sent; when the save fails no trigger is
\* sent, no poll is made, the record store is as before and the page stays
\* in Idle.
C24_StartOrder ==
    [][StartButtonStep =>
          LET sid == last'.sid
          IN  /\ queues'[sid] \in {queues[sid], <<>>}
              /\ \A id \in SessionIds \ {sid} : queues'[id] = queues[id]
              /\ generating' # generating =>
                     /\ generating' = generating \cup {sid}
                     /\ sessions'[sid] = NewSession(sid, num_questions')
                     /\ last'.error = "none"
              /\ pc' = "polling" =>
                     /\ sid \in generating'
                     /\ sessions'[sid] = NewSession(sid, num_questions')
                     /\ polls' = 0
              /\ last'.error = "valkey" =>
                     /\ sessions' = sessions
                     /\ generating' = generating
                     /\ pc' = "render"
                     /\ polls' = polls
                     /\ Idle'
                     /\ UNCHANGED stateVars]_vars

\* a start whose save failed: no record, nothing triggered, no poll, Idle
C24_Witness ==
    /\ last.op = "start"
    /\ last.error = "valkey"
    /\ startedId # None
    /\ ~sessions[startedId].present
    /\ startedId \notin generating
    /\ queues[startedId] = <<>>
    /\ pc = "render"
    /\ polls = 0
    /\ Idle

(* ------------------------------- C28 ----------------------------------- *)
\* C28 as stated: a pop_question call that returns None leaves every queue
\* with the elements it had (a step that takes an element off a queue is
\* not a call that returned None).
C28_NullKeepsQueue ==
    [][(\E id \in SessionIds : Len(queues'[id]) < Len(queues[id]))
          => called'.ret # "None"]_vars

(* ------------------------------- C30 ----------------------------------- *)
\* C30 (SpecSessions): an update_session call for an id under which no
\* record is stored returns False and leaves the store as it was: it
\* creates no record.
C30_NeverCreates ==
    [][(called'.op = "update_session" /\ ~sessions[called'.sid].present) =>
          /\ called'.ret = BoolRet(FALSE)
          /\ UNCHANGED storeVars]_vars

\* the store was reachable and the record had been deleted: False, no record
C30_Witness ==
    /\ called.op = "update_session"
    /\ ~called.failed
    /\ called.ret = BoolRet(FALSE)
    /\ ~sessions[called.sid].present
    /\ \E id \in SessionIds : sessions[id].present

(* ------------------------------- C26 ----------------------------------- *)
\* C26: in an Active session 1 <= question_number <= total_questions; the
\* number of recorded results is question_number while an answer is being
\* reviewed and question_number - 1 while one is awaited; and
\* 0 <= exam_score <= number of recorded results.
C26_ProgressCounters ==
    Active =>
        /\ 1 <= question_number
        /\ question_number <= total_questions
        /\ Len(exam_results) =
               IF show_explanation THEN question_number ELSE question_number - 1
        /\ 0 <= exam_score
        /\ exam_score <= Len(exam_results)

\* the second question of an exam is under review, one answer was right
C26_Witness ==
    /\ Active
    /\ show_explanation
    /\ question_number = 2
    /\ Len(exam_results) = 2
    /\ exam_score = 1

(* ------------------------------- C27 ----------------------------------- *)
\* C27 as stated: on the run of main that follows a successful login_user
\* the user is still authenticated and the dashboard is shown, whatever
\* happened earlier in the browser session.
C27_LoginReachesDashboard ==
    [][(fresh /\ ~fresh') => (authenticated' /\ page' = "dashboard")]_vars

(* ------------------------------- C29 ----------------------------------- *)
\* C29 as stated: after Logout or an inactivity timeout the exam state of
\* the browser session is Idle, with no score and no results.
C29_LogoutResetsExam ==
    [][(authenticated /\ ~authenticated') =>
          /\ Idle'
          /\ exam_score' = 0
          /\ exam_results' = <<>>]_vars

(* ------------------------------- C25 ----------------------------------- *)
\* C25 (SpecExam): an exam that received its first question within the
\* polling window reaches Finished when the producer goes on pushing and the
\* user goes on answering and retrying Next Question; the questions it
\* presented are then the first total_questions questions pushed for the
\* session, in push order, each once; and before that they are a prefix of
\* the pushed ones.
C25_FullExam ==
    /\ Active ~> Finished
    /\ [](exam_session_id # None =>
             /\ IsPrefix(popped[exam_session_id], pushed[exam_session_id])
             /\ Len(popped[exam_session_id]) = question_number
             /\ current_question = popped[exam_session_id][question_number])
    /\ [](Finished =>
             popped[exam_session_id] =
                 SubSeq(pushed[exam_session_id], 1, total_questions))

\* the exam is finished, and the producer had pushed more than it presented
C25_Witness ==
    /\ Finished
    /\ Len(popped[exam_session_id]) = total_questions
    /\ Len(pushed[exam_session_id]) > total_questions
    /\ Len(exam_results) = total_questions

====
